---------------------------- MODULE Spec2Model ----------------------------
(***************************************************************************)
(* Model of the omics-demo dashboard API (src/api/server.py) and of its    *)
(* request validator (src/api/validators.py).                              *)
(*                                                                         *)
(* One request is handled at a time.  A handler is cut into steps at its   *)
(* upstream calls (batch, object store), so that the upstream job queue    *)
(* can move between two calls of one request.  `request.json` is modelled  *)
(* by its value: None for an absent/null body, otherwise a JSON object.    *)
(***************************************************************************)
EXTENDS Integers, Sequences, FiniteSets, TLC

VARIABLES
    config,         \* server.py:70  the module-level configuration record
    schema,         \* the schema the validated route was decorated with
    queue,          \* upstream batch queue: number of jobs per job status
    pc,             \* position of the request being handled
    route,          \* route of the request being handled
    payload,        \* request.json of the request being handled
    handlerRuns,    \* times the wrapped handler body was entered, this request
    funcReturn,     \* what the wrapped handler returned, this request
    resp,           \* the response sent to the client
    calls,          \* upstream operations invoked, in order, this request
    log,            \* server-side log records written, this request
    running_jobs,   \* get_status local: len(running_jobs['jobSummaryList'])
    completed_jobs, \* get_status local: len(completed_jobs['jobSummaryList'])
    failed_jobs,    \* get_status local: len(failed_jobs['jobSummaryList'])
    current_time,   \* get_resources local: time.time(), in ticks
    moves           \* history: job transitions upstream since the request's
                    \* first job query returned

vars == <<config, schema, queue, pc, route, payload, handlerRuns, funcReturn,
          resp, calls, log, running_jobs, completed_jobs, failed_jobs,
          current_time, moves>>

-----------------------------------------------------------------------------
(* Bounds of the model *)

\* integers carried by JSON payloads range over -MaxInt..MaxInt
MaxInt == 1
\* each job-status count of the upstream queue ranges over 0..MaxCount
MaxCount == 5
\* job transitions during one request are counted up to MaxMoves
MaxMoves == 2
\* the wall clock of the simulator alone ranges over 0..MaxNow ticks
MaxNow == 1600

-----------------------------------------------------------------------------
(* JSON values and payloads *)

\* A JSON value as Python sees it: its runtime type name and its content.
\* A bool carries 0/1 in "int", as Python's bool is an int subclass.
IntValue(n) == [type |-> "int", int |-> n, str |-> <<>>]
StrValue(s) == [type |-> "str", int |-> 0, str |-> s]
BoolValue(b) == [type |-> "bool", int |-> IF b THEN 1 ELSE 0, str |-> <<>>]
NoneValue == [type |-> "NoneType", int |-> 0, str |-> <<>>]

StrContents == {<<>>, <<" ">>, <<"x">>, <<" ", "x">>}

JsonValues ==
    {IntValue(n) : n \in (0 - MaxInt)..MaxInt}
        \cup {StrValue(s) : s \in StrContents}
        \cup {BoolValue(b) : b \in BOOLEAN}
        \cup {NoneValue}

Fields == {"count", "name"}

\* request.json: None, or an object holding any subset of the fields
NoneJson == [isNone |-> TRUE, obj |-> <<>>]
ObjectJson(o) == [isNone |-> FALSE, obj |-> o]
Payloads ==
    {NoneJson} \cup
    {ObjectJson(o) : o \in UNION {[D -> JsonValues] : D \in SUBSET Fields}}

\* Python truthiness of request.json: None and {} are falsy
Truthy(json) == ~json.isNone /\ DOMAIN json.obj # {}

-----------------------------------------------------------------------------
(* src/api/validators.py *)

\* isinstance(value, tag) for the JSON types; bool is a subclass of int
isinstance(value, tag) ==
    \/ value.type = tag
    \/ value.type = "bool" /\ tag = "int"

RECURSIVE lstrip(_)
lstrip(s) == IF s # <<>> /\ Head(s) = " " THEN lstrip(Tail(s)) ELSE s

RECURSIVE rstrip(_)
rstrip(s) ==
    IF s # <<>> /\ s[Len(s)] = " " THEN rstrip(SubSeq(s, 1, Len(s) - 1)) ELSE s

\* str.strip()
strip(s) == rstrip(lstrip(s))

is_positive_int(value) ==
    IF ~isinstance(value, "int") THEN FALSE ELSE value.int > 0

is_non_empty_string(value) ==
    IF ~isinstance(value, "str") THEN FALSE ELSE Len(strip(value.str)) > 0

\* A schema entry's validator: a type or a validation function
TypeValidator(tag) == [callable |-> FALSE, name |-> tag]
FuncValidator(f) == [callable |-> TRUE, name |-> f]
Validators ==
    {TypeValidator(t) : t \in {"int", "str", "bool"}}
        \cup {FuncValidator(f) : f \in {"is_positive_int", "is_non_empty_string"}}

\* validator(value) for a callable validator
CallValidator(validator, value) ==
    IF validator.name = "is_positive_int"
    THEN is_positive_int(value)
    ELSE is_non_empty_string(value)

\* A schema is a dict: its items in insertion order, keys distinct
SchemaItem(f, v) == [field |-> f, validator |-> v]
Schemas ==
    {<<>>}
        \cup {<<SchemaItem(f, v)>> : f \in Fields, v \in Validators}
        \cup {<<SchemaItem(f, v), SchemaItem(g, w)>> :
                  <<f, g>> \in {fg \in Fields \X Fields : fg[1] # fg[2]},
                  <<v, w>> \in Validators \X Validators}

START_DEMO_SCHEMA == <<>>

\* jsonify({"error": ...}), 400 with the four messages of the wrapper
ErrorMessage(kind, field, expected, actual) ==
    [kind |-> kind, field |-> field, expected |-> expected, actual |-> actual]
MissingJson == ErrorMessage("Missing JSON in request", "", "", "")
MissingField(f) == ErrorMessage("Missing required field: {field}", f, "", "")
InvalidValue(f) == ErrorMessage("Invalid value for field: {field}", f, "", "")
InvalidType(f, e, a) ==
    ErrorMessage("Invalid type for field: {field}. Expected {expected_type}, got {actual_type}",
                 f, e, a)
BadRequest(msg) == [code |-> 400, body |-> [error |-> msg]]

Valid == [valid |-> TRUE, resp |-> [code |-> 0, body |-> <<>>]]
Invalid(r) == [valid |-> FALSE, resp |-> r]

\* the body of the for loop of wrapper, for one item of the schema
CheckItem(item, json) ==
    LET field == item.field
        validator == item.validator
    IN  IF field \notin DOMAIN json.obj
        THEN Invalid(BadRequest(MissingField(field)))
        ELSE IF validator.callable
        THEN IF ~CallValidator(validator, json.obj[field])
             THEN Invalid(BadRequest(InvalidValue(field)))
             ELSE Valid
        ELSE IF ~isinstance(json.obj[field], validator.name)
             THEN Invalid(BadRequest(InvalidType(field, validator.name,
                                                 json.obj[field].type)))
             ELSE Valid

\* faulty variant: the loop runs to the end and the last failure is the one returned
RECURSIVE ValidateFieldsKeepLast(_, _, _)
ValidateFieldsKeepLast(sch, json, i) ==
    IF i > Len(sch) THEN Valid
    ELSE LET later == ValidateFieldsKeepLast(sch, json, i + 1)
         IN  IF ~later.valid THEN later ELSE CheckItem(sch[i], json)

\* the for loop of wrapper, from the i-th item of the schema on: the first
\* failing item returns
RECURSIVE ValidateFields(_, _, _)
ValidateFields(sch, json, i) ==
    IF i > Len(sch) THEN Valid
    ELSE LET r == CheckItem(sch[i], json)
         IN  IF ~r.valid THEN r ELSE ValidateFields(sch, json, i + 1)

\* faulty variant: a body is required whatever the schema: `and schema` is dropped
validate_json_BodyRequired(sch, json) ==
    IF ~Truthy(json)
    THEN Invalid(BadRequest(MissingJson))
    ELSE ValidateFields(sch, json, 1)

\* wrapper, up to the call of func: Valid, or the 400 response it returns
validate_json(sch, json) ==
    IF ~Truthy(json) /\ sch # <<>>
    THEN Invalid(BadRequest(MissingJson))
    ELSE ValidateFields(sch, json, 1)

\* `return func(*args, **kwargs)`: the wrapper returns what func returned
WrapperReturn(r) == r

-----------------------------------------------------------------------------
(* src/api/server.py: configuration *)

DEFAULT_REGION == "us-east-1"
DEFAULT_BUCKET == "omics-demo-bucket"
DEFAULT_PROFILE == "default"
STACK_NAME == "omics-demo"

\* config.sh as load_config reads it: the KEY=value lines it recognises
ConfigFiles ==
    { <<>>,
      [REGION |-> "eu-west-1", BUCKET_NAME |-> "my-bucket",
       AWS_PROFILE |-> "demo", STACK_NAME |-> "my-stack"] }

FileValue(file, key, default) ==
    IF key \in DOMAIN file THEN file[key] ELSE default

load_config(file) ==
    [region |-> FileValue(file, "REGION", DEFAULT_REGION),
     bucket |-> FileValue(file, "BUCKET_NAME", DEFAULT_BUCKET),
     profile |-> FileValue(file, "AWS_PROFILE", DEFAULT_PROFILE),
     stack_name |-> FileValue(file, "STACK_NAME", STACK_NAME)]

-----------------------------------------------------------------------------
(* src/api/server.py: exceptions, log records, messages *)

\* str(e) of the exceptions upstream calls and client construction raise
ExcTexts == {"AccessDenied", "ConnectTimeout"}

Exc(type, text) == [type |-> type, text |-> text]

\* a formatted string: its template, the count and the exception text put in
Msg(text, n, detail) == [text |-> text, n |-> n, detail |-> detail]

\* logger.<level>(...): the message and whether a stack trace is attached
LogRecord(level, text, detail, trace) ==
    [level |-> level, text |-> text, detail |-> detail, trace |-> trace]

\* what a call can do: return, or raise an exception with some text
Ok == [raised |-> FALSE, exc |-> Exc("", "")]
Raised(type, text) == [raised |-> TRUE, exc |-> Exc(type, text)]
Outcomes == {Ok} \cup {Raised("Exception", t) : t \in ExcTexts}

\* an upstream operation invoked by the request, what it did and, when it
\* returned, what the handler found in the result
Call(op, outcome, result) == [op |-> op, outcome |-> outcome, result |-> result]

\* faulty variant: the failure is logged but a client is returned all the same
get_aws_client_NeverNone(service_name, outcome) ==
    [client |-> TRUE,
     log |-> IF outcome.raised
             THEN <<LogRecord("error",
                              "Error creating AWS client for " \o service_name \o ": {str(e)}",
                              outcome.exc.text, FALSE)>>
             ELSE <<>>]

\* get_aws_client: the client (None on failure) and what it logged
get_aws_client(service_name, outcome) ==
    IF outcome.raised
    THEN [client |-> FALSE,
          log |-> <<LogRecord("error",
                              "Error creating AWS client for " \o service_name \o ": {str(e)}",
                              outcome.exc.text, FALSE)>>]
    ELSE [client |-> TRUE, log |-> <<>>]

\* the app-wide error handler: (response, log records)
handle_exception(e) ==
    IF e.type = "ValueError"
    THEN [resp |-> [code |-> 400, body |-> [error |-> Msg("{str(e)}", 0, e.text)]],
          log |-> <<>>]
    ELSE [resp |-> [code |-> 500,
                    body |-> [error |-> Msg("An internal server error occurred", 0, "")]],
          log |-> <<LogRecord("error", "Unhandled exception: {str(e)}", e.text, FALSE),
                    LogRecord("error", "{traceback.format_exc()}", e.text, TRUE)>>]

-----------------------------------------------------------------------------
(* State shared by all requests *)

NoReturn == [code |-> 0, body |-> <<>>]

\* a request is taken only when the one before it has been answered
Begin(r, p) ==
    /\ pc = "idle"
    /\ route' = r
    /\ payload' = p
    /\ moves' = 0
    /\ UNCHANGED <<config, schema, queue>>

\* the request does not read the clock
NoClock == current_time' = -1

NoLocals ==
    /\ running_jobs' = -1
    /\ completed_jobs' = -1
    /\ failed_jobs' = -1

\* the request is answered
Respond(r) ==
    /\ resp' = r
    /\ pc' = "done"

\* a later step of the request in progress
Step(at) ==
    /\ pc = at
    /\ UNCHANGED <<config, schema, queue, route, payload, current_time, moves>>

-----------------------------------------------------------------------------
(* GET /api/config *)

\* faulty variant: the defaults are reported instead of the loaded configuration
ConfigBody_Defaults(cfg) ==
    [region |-> DEFAULT_REGION,
     bucket |-> DEFAULT_BUCKET,
     profile |-> DEFAULT_PROFILE,
     stackName |-> STACK_NAME,
     simulation |-> FALSE]

ConfigBody(cfg) ==
    [region |-> cfg.region,
     bucket |-> cfg.bucket,
     profile |-> cfg.profile,
     stackName |-> cfg.stack_name,
     simulation |-> FALSE]

get_config ==
    /\ Begin("/api/config", NoneJson)
    /\ Respond([code |-> 200, body |-> ConfigBody(config)])
    /\ handlerRuns' = 1
    /\ funcReturn' = NoReturn
    /\ calls' = <<>>
    /\ log' = <<>>
    /\ NoLocals
    /\ NoClock

-----------------------------------------------------------------------------
(* GET /api/status *)

TotalSamples == 100

\* faulty variant: any failed job makes the demo FAILED, whatever succeeded
DetermineStatus_FailedFirst(running, completed, failed) ==
    IF running > 0
    THEN [status |-> "RUNNING",
          message |-> Msg("Processing samples... ({n} jobs running)", running, ""),
          completedSamples |-> completed]
    ELSE IF failed > 0
    THEN [status |-> "FAILED",
          message |-> Msg("Demo failed with {n} failed jobs", failed, ""),
          completedSamples |-> completed]
    ELSE IF completed > 0
    THEN [status |-> "COMPLETED",
          message |-> Msg("Analysis completed with {n} successful jobs", completed, ""),
          completedSamples |-> completed]
    ELSE [status |-> "READY",
          message |-> Msg("Demo ready to start", 0, ""),
          completedSamples |-> 0]

\* the if/elif chain that determines status, message and completed_samples
DetermineStatus(running, completed, failed) ==
    IF running > 0
    THEN [status |-> "RUNNING",
          message |-> Msg("Processing samples... ({n} jobs running)", running, ""),
          completedSamples |-> completed]
    ELSE IF failed > 0 /\ ~(completed > 0)
    THEN [status |-> "FAILED",
          message |-> Msg("Demo failed with {n} failed jobs", failed, ""),
          completedSamples |-> completed]
    ELSE IF completed > 0
    THEN [status |-> "COMPLETED",
          message |-> Msg("Analysis completed with {n} successful jobs", completed, ""),
          completedSamples |-> completed]
    ELSE [status |-> "READY",
          message |-> Msg("Demo ready to start", 0, ""),
          completedSamples |-> 0]

StatusBody(running, completed, failed) ==
    LET d == DetermineStatus(running, completed, failed)
    IN  [status |-> d.status,
         message |-> d.message,
         completedSamples |-> d.completedSamples,
         totalSamples |-> TotalSamples,
         costAccrued |-> 0]

\* `if not batch: return ...` of get_status
StatusNoClient ==
    [code |-> 500,
     body |-> [status |-> "ERROR",
               message |-> Msg("AWS Batch client not available", 0, "")]]

\* faulty variant: an absent queue is reported as the generic error
StatusNotFound_AsError ==
    [code |-> 500,
     body |-> [status |-> "ERROR", message |-> Msg("Job queue not found", 0, "")]]

\* `if not job_queues['jobQueues']: return ...`
StatusNotFound ==
    [code |-> 404,
     body |-> [status |-> "NOT_FOUND", message |-> Msg("Job queue not found", 0, "")]]

\* the except clause of get_status: (response, log records)
StatusExcept(e) ==
    [resp |-> [code |-> 500,
               body |-> [status |-> "ERROR", message |-> Msg("{str(e)}", 0, e.text)]],
     log |-> <<LogRecord("error", "Error getting status: {str(e)}", e.text, TRUE)>>]

\* faulty variant: every query asks for the RUNNING jobs
list_jobs_AlwaysRunning(jobStatus) == queue["RUNNING"]

\* len(batch.list_jobs(jobQueue=queue_name, jobStatus=...)['jobSummaryList'])
list_jobs(jobStatus) == queue[jobStatus]

\* entry of get_status, up to the first upstream call
get_status ==
    /\ Begin("/api/status", NoneJson)
    /\ handlerRuns' = 1
    /\ funcReturn' = NoReturn
    /\ calls' = <<>>
    /\ NoLocals
    /\ NoClock
    /\ \E o \in Outcomes :
          LET batch == get_aws_client("batch", o)
          IN  /\ log' = batch.log
              /\ IF ~batch.client
                 THEN Respond(StatusNoClient)
                 ELSE /\ pc' = "describe_job_queues"
                      /\ resp' = NoReturn

\* batch.describe_job_queues(jobQueues=[queue_name])
status_describe_job_queues ==
    /\ Step("describe_job_queues")
    /\ UNCHANGED <<handlerRuns, funcReturn, running_jobs, completed_jobs, failed_jobs>>
    /\ \/ \E o \in Outcomes \ {Ok} :
            /\ calls' = Append(calls, Call("describe_job_queues", o, ""))
            /\ log' = log \o StatusExcept(o.exc).log
            /\ Respond(StatusExcept(o.exc).resp)
       \/ \E found \in BOOLEAN :
            /\ calls' = Append(calls, Call("describe_job_queues", Ok,
                                           IF found THEN "found" ELSE "empty"))
            /\ log' = log
            /\ IF ~found
               THEN Respond(StatusNotFound)
               ELSE /\ pc' = "list_jobs_RUNNING"
                    /\ resp' = resp

\* faulty variant: a failed RUNNING query is tried once more
status_list_running_Retry ==
    /\ Step("list_jobs_RUNNING")
    /\ UNCHANGED <<handlerRuns, funcReturn, completed_jobs, failed_jobs>>
    /\ \/ \E o \in Outcomes \ {Ok} :
            /\ calls' = Append(calls, Call("list_jobs_RUNNING", o, ""))
            /\ IF Len(calls) < 2
               THEN UNCHANGED <<log, resp, pc>>
               ELSE /\ log' = log \o StatusExcept(o.exc).log
                    /\ Respond(StatusExcept(o.exc).resp)
            /\ UNCHANGED running_jobs
       \/ /\ calls' = Append(calls, Call("list_jobs_RUNNING", Ok, "listed"))
          /\ running_jobs' = list_jobs("RUNNING")
          /\ pc' = "list_jobs_SUCCEEDED"
          /\ UNCHANGED <<log, resp>>

\* batch.list_jobs(jobQueue=queue_name, jobStatus='RUNNING')
status_list_running ==
    /\ Step("list_jobs_RUNNING")
    /\ UNCHANGED <<handlerRuns, funcReturn, completed_jobs, failed_jobs>>
    /\ \/ \E o \in Outcomes \ {Ok} :
            /\ calls' = Append(calls, Call("list_jobs_RUNNING", o, ""))
            /\ log' = log \o StatusExcept(o.exc).log
            /\ Respond(StatusExcept(o.exc).resp)
            /\ UNCHANGED running_jobs
       \/ /\ calls' = Append(calls, Call("list_jobs_RUNNING", Ok, "listed"))
          /\ running_jobs' = list_jobs("RUNNING")
          /\ pc' = "list_jobs_SUCCEEDED"
          /\ UNCHANGED <<log, resp>>

\* batch.list_jobs(jobQueue=queue_name, jobStatus='SUCCEEDED')
status_list_succeeded ==
    /\ Step("list_jobs_SUCCEEDED")
    /\ UNCHANGED <<handlerRuns, funcReturn, running_jobs, failed_jobs>>
    /\ \/ \E o \in Outcomes \ {Ok} :
            /\ calls' = Append(calls, Call("list_jobs_SUCCEEDED", o, ""))
            /\ log' = log \o StatusExcept(o.exc).log
            /\ Respond(StatusExcept(o.exc).resp)
            /\ UNCHANGED completed_jobs
       \/ /\ calls' = Append(calls, Call("list_jobs_SUCCEEDED", Ok, "listed"))
          /\ completed_jobs' = list_jobs("SUCCEEDED")
          /\ pc' = "list_jobs_FAILED"
          /\ UNCHANGED <<log, resp>>

\* batch.list_jobs(jobQueue=queue_name, jobStatus='FAILED'), then the rest of
\* the handler: the status, the cloudwatch client, the response
status_list_failed ==
    /\ Step("list_jobs_FAILED")
    /\ UNCHANGED <<handlerRuns, funcReturn, running_jobs, completed_jobs>>
    /\ \/ \E o \in Outcomes \ {Ok} :
            /\ calls' = Append(calls, Call("list_jobs_FAILED", o, ""))
            /\ log' = log \o StatusExcept(o.exc).log
            /\ Respond(StatusExcept(o.exc).resp)
            /\ UNCHANGED failed_jobs
       \/ \E c \in Outcomes :
            LET cloudwatch == get_aws_client("cloudwatch", c)
            IN  /\ calls' = Append(calls, Call("list_jobs_FAILED", Ok, "listed"))
                /\ failed_jobs' = list_jobs("FAILED")
                /\ log' = log \o cloudwatch.log
                /\ Respond([code |-> 200,
                            body |-> StatusBody(running_jobs, completed_jobs,
                                                list_jobs("FAILED"))])

-----------------------------------------------------------------------------
(* GET /api/resources *)

\* time.time() is read in ticks of a hundredth, so that int() has
\* something to cut off
Ticks == 100

\* faulty variant: the last ramp is not held at its value for 13
simulate_cpu_count_NoClamp(t) ==
    IF t < 1 * Ticks THEN (t * 20) \div Ticks
    ELSE IF t < 3 * Ticks THEN (20 * Ticks + (t - 1 * Ticks) * 70) \div Ticks
    ELSE IF t < 8 * Ticks THEN 160
    ELSE IF t < 10 * Ticks THEN (160 * Ticks - (t - 8 * Ticks) * 60) \div Ticks
    ELSE (40 * Ticks - (t - 10 * Ticks) * 10) \div Ticks

\* simulate_cpu_count, its argument (called time_minutes) in ticks
simulate_cpu_count(t) ==
    IF t < 1 * Ticks THEN (t * 20) \div Ticks
    ELSE IF t < 3 * Ticks THEN (20 * Ticks + (t - 1 * Ticks) * 70) \div Ticks
    ELSE IF t < 8 * Ticks THEN 160
    ELSE IF t < 10 * Ticks THEN (160 * Ticks - (t - 8 * Ticks) * 60) \div Ticks
    ELSE LET m == IF t < 13 * Ticks THEN t ELSE 13 * Ticks
         IN  (40 * Ticks - (m - 10 * Ticks) * 10) \div Ticks

\* current_time % 15
TimeMinutes(clock) == clock % (15 * Ticks)

\* the draws of random.uniform(a, b): the two ends and a point between
Uniform(a, b) == {a, 0, b}

ResourcesBody(clock, u1, u2, u3) ==
    LET time_minutes == TimeMinutes(clock)
    IN  [time |-> time_minutes,
         cpuCount |-> simulate_cpu_count(time_minutes),
         cpuUtilization |-> 75 + u1,
         memoryUtilization |-> 60 + u2,
         gpuUtilization |-> IF time_minutes < 10 * Ticks THEN 0 ELSE 80 + u3]

get_resources(clock) ==
    /\ Begin("/api/resources", NoneJson)
    /\ handlerRuns' = 1
    /\ funcReturn' = NoReturn
    /\ calls' = <<>>
    /\ NoLocals
    /\ current_time' = clock
    /\ \E o \in Outcomes :
          LET cloudwatch == get_aws_client("cloudwatch", o)
          IN  /\ log' = cloudwatch.log
              /\ IF ~cloudwatch.client
                 THEN Respond([code |-> 500,
                               body |-> [error |->
                                   Msg("CloudWatch client not available", 0, "")]])
                 ELSE \E u1 \in Uniform(-5, 15), u2 \in Uniform(-10, 20),
                         u3 \in Uniform(-5, 15) :
                        Respond([code |-> 200,
                                 body |-> ResourcesBody(clock, u1, u2, u3)])

-----------------------------------------------------------------------------
(* GET /api/stats *)

MockStats ==
    [totalVariants |-> 243826,
     transitions |-> 167538,
     transversions |-> 76288,
     tiTvRatio |-> 2196]      \* 2.196, in thousandths

\* what results/stats/stats.json may hold when it parses
StoredStats ==
    { [totalVariants |-> 10, transitions |-> 6, transversions |-> 4,
       tiTvRatio |-> 1500],
      [note |-> "empty run"] }

\* entry of get_stats, up to the object read
get_stats ==
    /\ Begin("/api/stats", NoneJson)
    /\ handlerRuns' = 1
    /\ funcReturn' = NoReturn
    /\ calls' = <<>>
    /\ NoLocals
    /\ NoClock
    /\ \E o \in Outcomes :
          LET s3 == get_aws_client("s3", o)
          IN  /\ log' = s3.log
              /\ IF ~s3.client
                 THEN Respond([code |-> 500,
                               body |-> [error |-> Msg("S3 client not available", 0, "")]])
                 ELSE /\ pc' = "get_object"
                      /\ resp' = NoReturn

\* faulty variant: a failed read is answered as an error, not with the mock stats
StatsFallback_AsError(e) ==
    [resp |-> [code |-> 500, body |-> [error |-> Msg("{str(e)}", 0, e.text)]],
     log |-> <<LogRecord("error", "Error getting stats: {str(e)}", e.text, FALSE)>>]

\* the inner except clause and the mock stats that follow it
StatsFallback(e) ==
    [resp |-> [code |-> 200, body |-> MockStats],
     log |-> <<LogRecord("warning",
                         "Could not get real stats, using mock data: {str(e)}",
                         e.text, FALSE)>>]

\* s3.get_object(...), then read, decode and parse of the body
stats_get_object ==
    /\ Step("get_object")
    /\ UNCHANGED <<handlerRuns, funcReturn, running_jobs, completed_jobs, failed_jobs>>
    /\ \/ \E o \in Outcomes \ {Ok} :
            \* get_object raises
            /\ calls' = Append(calls, Call("get_object", o, ""))
            /\ log' = log \o StatsFallback(o.exc).log
            /\ Respond(StatsFallback(o.exc).resp)
       \/ \E t \in {"UnicodeDecodeError", "JSONDecodeError"} :
            \* the object is read but its body does not decode or parse
            /\ calls' = Append(calls, Call("get_object", Ok, "unparseable"))
            /\ log' = log \o StatsFallback(Exc(t, "invalid body")).log
            /\ Respond(StatsFallback(Exc(t, "invalid body")).resp)
       \/ \E stats_data \in StoredStats :
            /\ calls' = Append(calls, Call("get_object", Ok, "parsed"))
            /\ log' = log
            /\ Respond([code |-> 200, body |-> stats_data])

-----------------------------------------------------------------------------
(* POST /api/start *)

JobIds == {"job-1", "job-2"}

\* what the client may send to /api/start
StartPayloads ==
    {NoneJson, ObjectJson(<<>>)}
        \cup {ObjectJson([f \in {"count"} |-> v]) : v \in {IntValue(1), StrValue(<<"x">>)}}

\* a handler response leaves through the wrapper
StartReturn(r) ==
    /\ funcReturn' = r
    /\ Respond(WrapperReturn(r))

\* the wrapper of validate_json(START_DEMO_SCHEMA), then the entry of
\* start_demo up to its first upstream call
start_demo(p) ==
    /\ Begin("/api/start", p)
    /\ calls' = <<>>
    /\ NoLocals
    /\ NoClock
    /\ LET v == validate_json(schema, p)
       IN  IF ~v.valid
           THEN /\ Respond(v.resp)
                /\ handlerRuns' = 0
                /\ funcReturn' = NoReturn
                /\ log' = <<>>
           ELSE /\ handlerRuns' = 1
                /\ \E o \in Outcomes :
                      LET batch == get_aws_client("batch", o)
                      IN  /\ log' = batch.log
                          /\ IF ~batch.client
                             THEN StartReturn([code |-> 500,
                                      body |-> [error |->
                                          Msg("AWS Batch client not available", 0, "")]])
                             ELSE /\ pc' = "describe_job_definitions"
                                  /\ resp' = NoReturn
                                  /\ funcReturn' = NoReturn

\* the outer except clause of start_demo
StartExcept(e) ==
    [resp |-> [code |-> 500, body |-> [error |-> Msg("{str(e)}", 0, e.text)]],
     log |-> <<LogRecord("error", "Error starting demo: {str(e)}", e.text, FALSE)>>]

\* the except clause around submit_job
SubmitExcept(e) ==
    [resp |-> [code |-> 500,
               body |-> [error |-> Msg("Failed to submit job: {str(e)}", 0, e.text)]],
     log |-> <<LogRecord("error", "Error submitting job: {str(e)}", e.text, FALSE)>>]

\* batch.describe_job_definitions(...): a ClientException is logged and
\* passed over, any other exception reaches the outer except clause
start_describe_job_definitions ==
    /\ Step("describe_job_definitions")
    /\ UNCHANGED <<handlerRuns, running_jobs, completed_jobs, failed_jobs>>
    /\ \/ \E o \in Outcomes \ {Ok} :
            /\ calls' = Append(calls, Call("describe_job_definitions", o, ""))
            /\ log' = log \o StartExcept(o.exc).log
            /\ StartReturn(StartExcept(o.exc).resp)
       \/ \E o \in {Ok} \cup {Raised("ClientException", t) : t \in ExcTexts} :
            /\ calls' = Append(calls, Call("describe_job_definitions", o,
                                           IF o.raised THEN "" ELSE "described"))
            /\ log' = IF o.raised
                      THEN Append(log, LogRecord("info",
                               "Creating job definition {job_definition_name}", "", FALSE))
                      ELSE log
            /\ pc' = "submit_job"
            /\ UNCHANGED <<resp, funcReturn>>

\* batch.submit_job(...); the job name and queue checks before it cannot
\* fail: the name is "omics-demo-" and a timestamp, the queue name ends in
\* "-queue".  A submitted job is in no state that get_status lists.
start_submit_job ==
    /\ Step("submit_job")
    /\ UNCHANGED <<handlerRuns, running_jobs, completed_jobs, failed_jobs>>
    /\ \/ \E o \in Outcomes \ {Ok} :
            /\ calls' = Append(calls, Call("submit_job", o, ""))
            /\ log' = log \o SubmitExcept(o.exc).log
            /\ StartReturn(SubmitExcept(o.exc).resp)
       \/ \E id \in JobIds :
            /\ calls' = Append(calls, Call("submit_job", Ok, "submitted"))
            /\ log' = log
            /\ StartReturn([code |-> 200,
                            body |-> [success |-> TRUE,
                                      jobId |-> id,
                                      message |-> Msg("Demo started successfully", 0, "")]])

-----------------------------------------------------------------------------
(* GET /health, and requests that match no route *)

health_check(now) ==
    /\ Begin("/health", NoneJson)
    /\ Respond([code |-> 200,
                body |-> [status |-> "healthy", timestamp |-> now, version |-> "1.0.0"]])
    /\ handlerRuns' = 1
    /\ funcReturn' = NoReturn
    /\ calls' = <<>>
    /\ log' = <<>>
    /\ NoLocals
    /\ current_time' = now

\* no route matches: the NotFound that routing raises reaches the handler
\* registered for Exception
no_route ==
    /\ Begin("/nowhere", NoneJson)
    /\ LET h == handle_exception(Exc("NotFound", "404 Not Found"))
       IN  /\ Respond(h.resp)
           /\ log' = h.log
    /\ handlerRuns' = 0
    /\ funcReturn' = NoReturn
    /\ calls' = <<>>
    /\ NoLocals
    /\ NoClock

-----------------------------------------------------------------------------
(* The upstream batch queue: jobs start, succeed and fail on their own *)

JobStarts ==
    /\ queue.RUNNING < MaxCount
    /\ queue' = [queue EXCEPT !.RUNNING = @ + 1]

JobSucceeds ==
    /\ queue.RUNNING > 0
    /\ queue.SUCCEEDED < MaxCount
    /\ queue' = [queue EXCEPT !.RUNNING = @ - 1, !.SUCCEEDED = @ + 1]

JobFails ==
    /\ queue.RUNNING > 0
    /\ queue.FAILED < MaxCount
    /\ queue' = [queue EXCEPT !.RUNNING = @ - 1, !.FAILED = @ + 1]

\* the request in progress has had the answer of its first job query
FirstQueryDone == route = "/api/status" /\ running_jobs # -1

Upstream ==
    /\ JobStarts \/ JobSucceeds \/ JobFails
    /\ moves' = IF FirstQueryDone /\ moves < MaxMoves THEN moves + 1 ELSE moves
    /\ UNCHANGED <<config, schema, pc, route, payload, handlerRuns, funcReturn,
                   resp, calls, log, running_jobs, completed_jobs, failed_jobs,
                   current_time>>

-----------------------------------------------------------------------------
(* The server *)

\* wall-clock readings, in ticks
Nows == {0, 50, 500, 900, 1400}

InitRequest ==
    /\ pc = "idle"
    /\ route = ""
    /\ payload = NoneJson
    /\ handlerRuns = 0
    /\ funcReturn = NoReturn
    /\ resp = NoReturn
    /\ calls = <<>>
    /\ log = <<>>
    /\ running_jobs = -1
    /\ completed_jobs = -1
    /\ failed_jobs = -1
    /\ current_time = -1
    /\ moves = 0

\* the response has been sent: the request's context is dropped and the
\* server takes the next request
finish ==
    /\ pc = "done"
    /\ pc' = "idle"
    /\ route' = ""
    /\ payload' = NoneJson
    /\ handlerRuns' = 0
    /\ funcReturn' = NoReturn
    /\ resp' = NoReturn
    /\ calls' = <<>>
    /\ log' = <<>>
    /\ NoLocals
    /\ NoClock
    /\ moves' = 0
    /\ UNCHANGED <<config, schema, queue>>

Init ==
    /\ config \in {load_config(f) : f \in ConfigFiles}
    /\ schema = START_DEMO_SCHEMA
    /\ queue = [RUNNING |-> 0, SUCCEEDED |-> 0, FAILED |-> 0]
    /\ InitRequest

Next ==
    \/ get_config
    \/ get_status
    \/ status_describe_job_queues
    \/ status_list_running
    \/ status_list_succeeded
    \/ status_list_failed
    \/ \E t \in Nows : get_resources(t)
    \/ get_stats
    \/ stats_get_object
    \/ \E p \in StartPayloads : start_demo(p)
    \/ start_describe_job_definitions
    \/ start_submit_job
    \/ \E t \in Nows : health_check(t)
    \/ no_route
    \/ finish
    \/ Upstream

Spec == Init /\ [][Next]_vars

-----------------------------------------------------------------------------
(* The validator alone: a route decorated with any schema, wrapping a      *)
(* handler that answers at once                                            *)

\* what the wrapped handler may return
FuncReturns ==
    { [code |-> 200, body |-> [success |-> TRUE]],
      [code |-> 500, body |-> [error |-> Msg("handler failed", 0, "")]] }

\* faulty variant: the handler is called before the request is validated
wrapper_HandlerFirst(p) ==
    /\ Begin("/validated", p)
    /\ log' = <<>>
    /\ NoLocals
    /\ NoClock
    /\ \E r \in FuncReturns :
          LET v == validate_json(schema, p)
          IN  /\ handlerRuns' = 1
              /\ calls' = <<Call("func", Ok, "returned")>>
              /\ funcReturn' = r
              /\ Respond(IF ~v.valid THEN v.resp ELSE WrapperReturn(r))

\* wrapper(*args, **kwargs) around such a handler
wrapper(p) ==
    /\ Begin("/validated", p)
    /\ log' = <<>>
    /\ NoLocals
    /\ NoClock
    /\ LET v == validate_json(schema, p)
       IN  IF ~v.valid
           THEN /\ Respond(v.resp)
                /\ handlerRuns' = 0
                /\ funcReturn' = NoReturn
                /\ calls' = <<>>
           ELSE \E r \in FuncReturns :
                  /\ handlerRuns' = 1
                  /\ calls' = <<Call("func", Ok, "returned")>>
                  /\ StartReturn(r)

InitV ==
    /\ config = load_config(<<>>)
    /\ schema \in Schemas
    /\ queue = [RUNNING |-> 0, SUCCEEDED |-> 0, FAILED |-> 0]
    /\ InitRequest

NextV ==
    \/ \E p \in Payloads : wrapper(p)
    \/ finish

SpecV == InitV /\ [][NextV]_vars

-----------------------------------------------------------------------------
(* The resource simulator alone, over every reading of the clock *)

NextR ==
    \/ \E t \in 0..MaxNow : get_resources(t)
    \/ finish

SpecR == Init /\ [][NextR]_vars

-----------------------------------------------------------------------------
(* Properties of the validator (checked under SpecV) *)

\* the validated request has been answered
Validated == pc = "done" /\ route = "/validated"

\* a value satisfies a constraint: the predicate holds of it, or it is an
\* instance of the type
Accepts(validator, value) ==
    IF validator.callable
    THEN CallValidator(validator, value)
    ELSE isinstance(value, validator.name)

\* the field of a schema item is present in the payload and satisfies its
\* constraint
FieldOK(item, json) ==
    /\ ~json.isNone
    /\ item.field \in DOMAIN json.obj
    /\ Accepts(item.validator, json.obj[item.field])

AllFieldsOK(sch, json) == \A i \in 1..Len(sch) : FieldOK(sch[i], json)

\* the first item, in schema order, whose field is missing or violates
FirstOffender(sch, json) ==
    sch[CHOOSE i \in 1..Len(sch) :
            /\ ~FieldOK(sch[i], json)
            /\ \A j \in 1..(i - 1) : FieldOK(sch[j], json)]

\* the message for an offending item
OffenceMessage(item, json) ==
    IF item.field \notin DOMAIN json.obj THEN MissingField(item.field)
    ELSE IF item.validator.callable THEN InvalidValue(item.field)
    ELSE InvalidType(item.field, item.validator.name, json.obj[item.field].type)

-----------------------------------------------------------------------------
(* Properties of the server (checked under Spec) *)

\* C3: with the empty schema declared for POST /api/start every payload,
\* the null body included, is valid: the validator never answers 400 and
\* the start handler runs.
C3_EmptySchemaAlwaysValid ==
    (route = "/api/start" /\ pc # "idle") =>
        /\ schema = <<>>
        /\ handlerRuns = 1
        /\ resp.code # 400

\* C3 witness: a request to /api/start without a body starts the demo
C3_Witness ==
    /\ route = "/api/start"
    /\ pc = "done"
    /\ payload = NoneJson
    /\ resp.code = 200

\* GET /api/status has read the three job lists and answered
StatusAnswered ==
    /\ route = "/api/status"
    /\ pc = "done"
    /\ Len(calls) = 4
    /\ ~calls[4].outcome.raised

\* the status the precedence rule gives to three counts
PrecedenceStatus(running, succeeded, failed) ==
    CASE running > 0 -> "RUNNING"
      [] running = 0 /\ failed > 0 /\ succeeded = 0 -> "FAILED"
      [] running = 0 /\ succeeded > 0 -> "COMPLETED"
      [] OTHER -> "READY"

\* C5: once the queue was found, the status answered for the counts
\* (running, succeeded, failed) that the three queries returned is the first
\* match of RUNNING, FAILED, COMPLETED, READY, and completedSamples is the
\* succeeded count; so (2,5,0) is RUNNING with 5, (0,0,3) FAILED, (0,5,3)
\* COMPLETED and (0,0,0) READY with 0.
C5_StatusPrecedence ==
    StatusAnswered =>
        LET counts == <<running_jobs, completed_jobs, failed_jobs>>
        IN  /\ resp.code = 200
            /\ resp.body.status =
                   PrecedenceStatus(running_jobs, completed_jobs, failed_jobs)
            /\ resp.body.completedSamples = completed_jobs
            /\ resp.body.status \in {"FAILED", "READY"}
                   => resp.body.completedSamples = 0
            /\ counts = <<2, 5, 0>> => resp.body.status = "RUNNING"
            /\ counts = <<0, 0, 3>> => resp.body.status = "FAILED"
            /\ counts = <<0, 5, 3>> => resp.body.status = "COMPLETED"
            /\ counts = <<0, 0, 0>> => resp.body.status = "READY"

\* C5 witness: five succeeded and three failed jobs, none running, are
\* answered COMPLETED
C5_Witness ==
    /\ StatusAnswered
    /\ <<running_jobs, completed_jobs, failed_jobs>> = <<0, 5, 3>>
    /\ resp.body.status = "COMPLETED"
    /\ resp.body.completedSamples = 5

\* GET /api/status has answered right after the describe-queue query
AnsweredAfterDescribe ==
    /\ route = "/api/status"
    /\ pc = "done"
    /\ Len(calls) = 1
    /\ calls[1].op = "describe_job_queues"

\* C6 as stated: when the describe-queue query raises or returns an empty
\* list, the answer is NOT_FOUND with HTTP 404 and the fixed message.
C6_DescribeFailureIsNotFound ==
    AnsweredAfterDescribe =>
        /\ resp.code = 404
        /\ resp.body.status = "NOT_FOUND"
        /\ resp.body.message = Msg("Job queue not found", 0, "")

\* C6 amended: when the describe-queue query returns an empty list, the
\* answer is NOT_FOUND with HTTP 404 and the fixed message, whatever jobs
\* the queue holds; when the query raises, the answer is ERROR with HTTP 500
\* and the text of the exception as message.
C6_EmptyIsNotFoundRaiseIsError ==
    AnsweredAfterDescribe =>
        IF calls[1].outcome.raised
        THEN /\ resp.code = 500
             /\ resp.body.status = "ERROR"
             /\ resp.body.message = Msg("{str(e)}", 0, calls[1].outcome.exc.text)
        ELSE /\ calls[1].result = "empty"
             /\ resp.code = 404
             /\ resp.body.status = "NOT_FOUND"
             /\ resp.body.message = Msg("Job queue not found", 0, "")

\* C6 witness: the queue list comes back empty while jobs are running
\* upstream, and the answer is NOT_FOUND
C6_Witness ==
    /\ AnsweredAfterDescribe
    /\ ~calls[1].outcome.raised
    /\ queue.RUNNING > 0
    /\ resp.code = 404

\* the batch client of GET /api/status could not be constructed
BatchClientFailed ==
    /\ route = "/api/status"
    /\ log # <<>>
    /\ log[1].text = "Error creating AWS client for batch: {str(e)}"

\* C7 as stated: when the batch client cannot be constructed the answer is
\* ERROR with HTTP 500, its message carries the reason of the failure, and
\* no queue query is made.
C7_NoClientMessageCarriesReason ==
    BatchClientFailed =>
        /\ pc = "done"
        /\ resp.code = 500
        /\ resp.body.status = "ERROR"
        /\ resp.body.message.detail = log[1].detail
        /\ calls = <<>>

\* C7 amended: when the batch client cannot be constructed the answer is
\* ERROR with HTTP 500 and the fixed message "AWS Batch client not
\* available", the reason of the failure goes to the log only, and no queue
\* query is made.
C7_NoClientIsFixedError ==
    BatchClientFailed =>
        /\ pc = "done"
        /\ resp.code = 500
        /\ resp.body.status = "ERROR"
        /\ resp.body.message = Msg("AWS Batch client not available", 0, "")
        /\ log[1].detail \in ExcTexts
        /\ calls = <<>>

\* C7 witness: the construction failed with "AccessDenied" and the request
\* is answered
C7_Witness ==
    /\ BatchClientFailed
    /\ log[1].detail = "AccessDenied"
    /\ pc = "done"
    /\ resp.code = 500

\* C8: no step changes the configuration record, and every answer of GET
\* /api/config is HTTP 200 with simulation false and region, bucket, profile
\* and stackName equal to the configuration the process started with.
C8_ConfigConstant ==
    [][ /\ config' = config
        /\ (route' = "/api/config" /\ pc' = "done") =>
               resp' = [code |-> 200,
                        body |-> [region |-> config.region,
                                  bucket |-> config.bucket,
                                  profile |-> config.profile,
                                  stackName |-> config.stack_name,
                                  simulation |-> FALSE]] ]_vars

\* C8 witness: a configuration loaded from config.sh is reported
C8_Witness ==
    /\ route = "/api/config"
    /\ pc = "done"
    /\ config = load_config([REGION |-> "eu-west-1", BUCKET_NAME |-> "my-bucket",
                             AWS_PROFILE |-> "demo", STACK_NAME |-> "my-stack"])
    /\ resp.code = 200
    /\ resp.body.region = "eu-west-1"

\* GET /api/stats had its object-store client and has answered
StatsAnswered ==
    /\ route = "/api/stats"
    /\ pc = "done"
    /\ Len(calls) = 1
    /\ calls[1].op = "get_object"

\* the read of the stats object failed: get_object raised, or the body did
\* not decode or parse
StatsReadFailed ==
    \/ calls[1].outcome.raised
    \/ calls[1].result = "unparseable"

\* C9: when the object store client is available and the read of the stats
\* object fails, the answer is HTTP 200 with the constants 243826, 167538,
\* 76288 and 2.196, where 167538 + 76288 = 243826; when the read succeeds
\* the answer is the object's content and the fallback is not taken.
C9_StatsFallback ==
    StatsAnswered =>
        IF StatsReadFailed
        THEN /\ resp.code = 200
             /\ resp.body = [totalVariants |-> 243826,
                             transitions |-> 167538,
                             transversions |-> 76288,
                             tiTvRatio |-> 2196]
             /\ resp.body.transitions + resp.body.transversions
                    = resp.body.totalVariants
        ELSE /\ resp.code = 200
             /\ resp.body \in StoredStats
             /\ \A i \in 1..Len(log) : log[i].level # "warning"

\* C9 witness: the object is read but does not parse, and the constants
\* are answered
C9_Witness ==
    /\ StatsAnswered
    /\ calls[1].result = "unparseable"
    /\ resp.body.totalVariants = 243826

\* the request ended because its last upstream call raised
UpstreamCallFailed ==
    /\ pc = "done"
    /\ calls # <<>>
    /\ calls[Len(calls)].outcome.raised

\* the text of an exception appears in the body sent to the client
BodyCarriesExceptionText ==
    \/ /\ "message" \in DOMAIN resp.body
       /\ resp.body.message.detail \in ExcTexts
    \/ /\ "error" \in DOMAIN resp.body
       /\ resp.body.error.detail \in ExcTexts

\* C10 as stated: when an upstream call fails, the body sent to the client
\* does not depend on the text of the exception, which goes to the log only.
C10_UpstreamFailureSanitized ==
    UpstreamCallFailed =>
        /\ ~BodyCarriesExceptionText
        /\ \E i \in 1..Len(log) : log[i].detail = calls[Len(calls)].outcome.exc.text

-----------------------------------------------------------------------------
(* Properties of the resource simulator (checked under SpecR) *)

\* GET /api/resources has answered with the simulated metrics
ResourcesAnswered ==
    /\ route = "/api/resources"
    /\ pc = "done"
    /\ resp.code = 200

\* the piecewise-linear function of the time t, both in ticks
PiecewiseLinear(t) ==
    CASE t < 1 * Ticks -> 20 * t
      [] t >= 1 * Ticks /\ t < 3 * Ticks -> 20 * Ticks + 70 * (t - 1 * Ticks)
      [] t >= 3 * Ticks /\ t < 8 * Ticks -> 160 * Ticks
      [] t >= 8 * Ticks /\ t < 10 * Ticks -> 160 * Ticks - 60 * (t - 8 * Ticks)
      [] OTHER ->
           40 * Ticks - 10 * ((IF t < 13 * Ticks THEN t ELSE 13 * Ticks) - 10 * Ticks)

\* C11: for every time t of the window, 0 <= t < 15, cpuCount is the
\* piecewise-linear function of t cut to an integer; it is 0 at t = 0, 160
\* at t = 5, strictly between 40 and 160 at t = 9, and always in 0..160.
C11_CpuCountPiecewise ==
    ResourcesAnswered =>
        LET t == resp.body.time
            cpu == resp.body.cpuCount
        IN  /\ t \in 0..(15 * Ticks - 1)
            /\ PiecewiseLinear(t) >= 0
            /\ cpu * Ticks <= PiecewiseLinear(t)
            /\ PiecewiseLinear(t) < (cpu + 1) * Ticks
            /\ cpu \in 0..160
            /\ t = 0 => cpu = 0
            /\ t = 5 * Ticks => cpu = 160
            /\ t = 9 * Ticks => (40 < cpu /\ cpu < 160)

\* C11 witness: at t = 1.52 the function is 56.4 and cpuCount is 56
C11_Witness ==
    /\ ResourcesAnswered
    /\ resp.body.time = 152
    /\ resp.body.cpuCount = 56

\* C12 as stated: the time reported is the wall clock in seconds modulo 900,
\* converted to minutes: sixty times the time is the clock modulo 900.
C12_TimeIsClockMod900InMinutes ==
    ResourcesAnswered =>
        resp.body.time * 60 = current_time % (900 * Ticks)

-----------------------------------------------------------------------------
(* Properties of the upstream calls of one request (checked under Spec) *)

\* the upstream operations of each route, in the order of its code
RouteCalls ==
    CASE route = "/api/status" ->
           <<"describe_job_queues", "list_jobs_RUNNING", "list_jobs_SUCCEEDED",
             "list_jobs_FAILED">>
      [] route = "/api/start" -> <<"describe_job_definitions", "submit_job">>
      [] route = "/api/stats" -> <<"get_object">>
      [] OTHER -> <<>>

\* the calls made so far are the first operations of the route, each once
CallsInOrder ==
    /\ Len(calls) <= Len(RouteCalls)
    /\ \A i \in 1..Len(calls) : calls[i].op = RouteCalls[i]

\* the i-th call failed and the request was answered at once with its
\* error or fallback response
FailedFast(i) ==
    /\ i = Len(calls)
    /\ pc = "done"
    /\ \/ resp.code = 500
       \/ route = "/api/stats" /\ resp = [code |-> 200, body |-> MockStats]

\* C13 as stated: the upstream calls of a request are made one after the
\* other in the order of the code, none is made twice, and once a call has
\* failed the request is answered with its error or fallback response and
\* no further call is made.
C13_NoCallAfterFailure ==
    /\ CallsInOrder
    /\ \A i \in 1..Len(calls) : calls[i].outcome.raised => FailedFast(i)

\* C13 amended: as stated, except that in POST /api/start a ClientException
\* of describe-job-definitions is logged and the request goes on to
\* submit-job.
C13_NoCallAfterFailureButClientException ==
    /\ CallsInOrder
    /\ \A i \in 1..Len(calls) :
          calls[i].outcome.raised =>
              \/ FailedFast(i)
              \/ /\ calls[i].op = "describe_job_definitions"
                 /\ calls[i].outcome.exc.type = "ClientException"
                 /\ \E k \in 1..Len(log) : log[k].level = "info"

\* C13 witness: the SUCCEEDED query of GET /api/status fails and the
\* request is answered ERROR without the FAILED query
C13_Witness ==
    /\ route = "/api/status"
    /\ pc = "done"
    /\ Len(calls) = 3
    /\ calls[3].op = "list_jobs_SUCCEEDED"
    /\ calls[3].outcome.raised
    /\ resp.code = 500

-----------------------------------------------------------------------------
(* The three job counts of GET /api/status against the queue (under Spec) *)

\* the counts the request read with its three queries
Snapshot == <<running_jobs, completed_jobs, failed_jobs>>

\* the counts of the upstream queue
QueueState == <<queue["RUNNING"], queue["SUCCEEDED"], queue["FAILED"]>>

\* C14: when no job of the queue changes state between the first query of
\* a GET /api/status request and its answer, the three counts it read are
\* the counts of the queue; a job that goes from RUNNING to SUCCEEDED
\* between the first and the second query is counted twice (C14_Witness).
C14_NoMoveReadsOneQueueState ==
    (StatusAnswered /\ moves = 0) => Snapshot = QueueState

\* C14 witness: one job succeeded after the RUNNING query and before the
\* SUCCEEDED query; it is counted as running and as completed, so the
\* counts name one job more than the queue holds
C14_Witness ==
    /\ StatusAnswered
    /\ moves = 1
    /\ queue["SUCCEEDED"] >= 1
    /\ Snapshot = <<queue["RUNNING"] + 1, queue["SUCCEEDED"], queue["FAILED"]>>
    /\ resp.body.status = "RUNNING"
    /\ resp.body.completedSamples = queue["SUCCEEDED"]

=============================================================================
